---- MODULE Spec2Model ----
(***************************************************************************)
(* Model of the climate-downloads notebooks.                               *)
(*                                                                         *)
(*   SpecEra5   the ERA5 download loop (chunked fetch, concatenation,      *)
(*              removal of the component files), with re-runs of the cell  *)
(*              in the same kernel session or in a restarted one           *)
(*   SpecCmip6  the CMIP6 process loop (file-existence / overwrite gate,   *)
(*              grid load, one output file per subset)                     *)
(*   SpecChunks the cell that breaks the years up into chunks              *)
(*   SpecFixLons      fix_lons on a grid, called once and again            *)
(*   SpecTimeSubset   the subsetting by time of the process loop           *)
(*   SpecSpatial      fix_lons, the lon cut-off and the lat/lon selection  *)
(*   SpecLatDoubling  the fix of the coordinate doubling                   *)
(*   SpecQuery        the cell that builds subset_query                    *)
(*                                                                         *)
(* File names are sequences of tokens (pieces of the string); re.sub and   *)
(* the wildcard of open_mfdataset work on the tokens.                      *)
(***************************************************************************)
EXTENDS Integers, Sequences, FiniteSets, TLC

VARIABLES
    \* ---- ERA5 notebook -------------------------------------------------
    raw_data_dir,      \* cfg.lpaths['raw_data_dir'], a token sequence
    resamp,            \* resampling_vars['resamp']
    output_freq_name,  \* resampling_vars['output_freq_name']
    all_years,         \* sequence of years
    chunk_size,
    chunks,            \* sequence of sequences of years
    files,             \* the disk: file name -> time axis (sequence of years)
    fn1,               \* the notebook global fn1 (Undefined until assigned)
    vi,                \* position in download_vars
    ci,                \* position in chunks
    pc,                \* "var", "chunk", "concat", "done", "failed"; "setup", "chunked"
    err,               \* the exception that ended the run, or "none"
    requested,         \* c.retrieve calls issued by the last step (targets)
    touched,           \* files created, rewritten or removed by the last step
    dirs,              \* the directories that exist under raw_data_dir
    recovering,        \* whether this run of the cell follows a failed one
    \* ---- CMIP6 notebook ------------------------------------------------
    overwrite,
    subset_params_all, \* sequence of subset specifications
    cfiles,            \* the disk: file name -> "old" (there before) / "new"
    di,                \* position in the list of source datasets
    si,                \* position in subset_params_all
    cpc,               \* "gate", "open", "subset", "end", "done", "failed"
    output_fns,        \* list filled per source dataset
    path_exists,       \* list filled per source dataset
    opened,            \* source datasets whose remote grid was opened
    removed,           \* files removed by the gate
    written,           \* files written by to_netcdf
    ds_tmp,            \* whether the loop variable ds_tmp is bound
    cdirs,             \* the directories that exist under raw_data_dir
    \* ---- functions and cells checked on their own ----------------------
    ds,                \* the grid being transformed
    ds_in,             \* the grid before the first call
    subset_params,     \* the subset specification of the call
    data_params_all,   \* list of download specifications
    subset_query,      \* the query built from data_params_all
    fpc                \* "call", "fixed", "cut", "returned", "raised" (or "idle")

eraVars == <<raw_data_dir, resamp, output_freq_name, all_years, chunk_size,
             chunks, files, fn1, vi, ci, pc, err, requested, touched, dirs,
             recovering>>
cmipVars == <<overwrite, subset_params_all, cfiles, di, si, cpc, output_fns,
              path_exists, opened, removed, written, ds_tmp, cdirs>>
fnVars == <<ds, ds_in, subset_params, data_params_all, subset_query, fpc>>
vars == <<eraVars, cmipVars, fnVars>>

(***************************************************************************)
(* Bounds                                                                  *)
(***************************************************************************)
MaxYears == 3          \* longest year range of the ERA5 model
MaxChunkSize == 2      \* largest chunk size of the ERA5 model
MaxPreexisting == 1    \* files on disk before the first run
MaxRangeLen == 11      \* longest year range of SpecChunks
MaxChunkLen == 6       \* largest chunk size of SpecChunks
MaxSubsets == 2        \* longest subset_params_all

FirstYear == 1979

Undefined == <<"<undefined>">>
None == "None"

Min(a, b) == IF a < b THEN a ELSE b

\* np.arange(a, b)
Arange(a, b) == [i \in 1..(b - a) |-> a + i - 1]

(***************************************************************************)
(* String helpers                                                          *)
(***************************************************************************)
\* re.sub(old, new, s): every occurrence in s is replaced
ReSub(old, new, s) == [i \in 1..Len(s) |-> IF s[i] = old THEN new ELSE s[i]]

\* str(year)
Str(y) == ToString(y)

\* a file name matches  prefix + '*' + suffix
GlobMatch(prefix, suffix, p) ==
    /\ Len(p) >= Len(prefix) + Len(suffix)
    /\ SubSeq(p, 1, Len(prefix)) = prefix
    /\ SubSeq(p, Len(p) - Len(suffix) + 1, Len(p)) = suffix

(***************************************************************************)
(* ERA5: parameters of the notebook                                        *)
(***************************************************************************)
download_vars == << <<"vwt">>, <<"uwt">> >>
fn_suffix == <<"_WIndOcean">>
RawDataDirs == { <<"/data/">>, <<"/home/c", "hr", "is/">> }
FreqNames == {"day", "mon", "hr"}

\* (mutant of Chunks: the last, shorter chunk is lost)
MutChunks(years, size) ==
    [k \in 1..(Len(years) \div size) |->
        SubSeq(years, (k - 1) * size + 1, k * size)]
\* Break up years into chunks
Chunks(years, size) ==
    [k \in 1..((Len(years) + size - 1) \div size) |->
        SubSeq(years, (k - 1) * size + 1, Min(k * size, Len(years)))]

\* [raw_data_dir]ERA5/[short]_[freq]_ERA5_historical_reanalysis_[y0]0101-[y1]1231[suffix].nc
EraName(dir, short, freq, y0, y1) ==
    dir \o <<"ERA5/">> \o short
        \o <<"_", freq, "_ERA5_historical_reanalysis_">>
        \o <<Str(y0), "0101-", Str(y1), "1231">>
        \o fn_suffix \o <<".nc">>

\* the directory the files are placed in
EraDir(dir) == dir \o <<"ERA5/">>
\* the directory part of a file name built on a directory as long as dir
DirOf(p, dir) == SubSeq(p, 1, Min(Len(p), Len(dir) + 1))

short_name == download_vars[vi]
chunk == chunks[ci]

\* fn_final
FnFinal ==
    IF resamp
    THEN EraName(raw_data_dir, short_name, output_freq_name,
                 all_years[1], all_years[Len(all_years)])
    ELSE EraName(raw_data_dir, short_name, "hr",
                 all_years[1], all_years[Len(all_years)])

\* Set filename for temporary file
Fn0(c) == EraName(raw_data_dir, short_name, "hr", c[1], c[Len(c)])

\* the name tested before a chunk is downloaded
GateName(c) == ReSub("hr", "day", Fn0(c))

\* the name the processed chunk is exported to
Fn1(c) == IF resamp THEN ReSub("hr", output_freq_name, Fn0(c)) ELSE Fn0(c)

\* the name of a component file as the concatenation and the removal build it
ComponentName(c) ==
    EraName(raw_data_dir, short_name, output_freq_name, c[1], c[Len(c)])

(***************************************************************************)
(* The disk                                                                *)
(***************************************************************************)
Exists(f, p) == p \in DOMAIN f
WriteFile(f, p, data) == [q \in DOMAIN f \cup {p} |-> IF q = p THEN data ELSE f[q]]
RemoveFile(f, p) == [q \in DOMAIN f \ {p} |-> f[q]]

StrictlyIncreasing(s) == \A i \in 1..(Len(s) - 1) : s[i] < s[i + 1]

(***************************************************************************)
(* ERA5: concatenation helpers                                             *)
(***************************************************************************)
\* the files the wildcard of open_mfdataset selects
Matched(f) ==
    { p \in DOMAIN f :
        GlobMatch(EraDir(raw_data_dir) \o short_name
                      \o <<"_", output_freq_name, "_ERA5_historical_reanalysis_">>,
                  fn_suffix \o <<".nc">>, p) }

\* combine='by_coords': the datasets are ordered by their first time value
\* and concatenated along time
RECURSIVE CombineByCoords(_, _)
CombineByCoords(f, S) ==
    IF S = {} THEN <<>>
    ELSE LET p == CHOOSE p \in S : \A q \in S : f[p][1] <= f[q][1]
         IN  f[p] \o CombineByCoords(f, S \ {p})

\* Remove the component files: position of the first chunk whose component
\* file is not there (os.remove raises), 0 when every one is there
FirstMissing(f) ==
    LET miss == { k \in 1..Len(chunks) : ~Exists(f, ComponentName(chunks[k])) }
    IN  IF miss = {} THEN 0 ELSE CHOOSE k \in miss : \A j \in miss : k <= j

\* the disk after the component files of chunks 1..n were removed
RemoveComponents(f, n) ==
    [q \in DOMAIN f \ { ComponentName(chunks[k]) : k \in 1..n } |-> f[q]]

(***************************************************************************)
(* ERA5: the download cell                                                 *)
(***************************************************************************)
EraConfigUnchanged ==
    UNCHANGED <<raw_data_dir, resamp, output_freq_name, all_years, chunk_size,
                chunks>>

\* no line of the download cell makes a directory
NoMkdir == UNCHANGED dirs

\* the run of the cell goes on
SameRun == UNCHANGED recovering

\* an exception ends the run of the cell
Raise(e) == pc' = "failed" /\ err' = e

\* the for loop over download_vars moves on
NextVar ==
    /\ vi' = vi + 1
    /\ ci' = 1
    /\ pc' = IF vi + 1 > Len(download_vars) THEN "done" ELSE "var"

NextChunk ==
    /\ ci' = ci + 1
    /\ vi' = vi
    /\ pc' = IF ci + 1 > Len(chunks) THEN "concat" ELSE "chunk"

\* (mutant of FinalExists: the test of fn_final is lost)
MutFinalExists == FALSE
\* os.path.exists(fn_final)
FinalExists == Exists(files, FnFinal)

\* else: print(fn_final+' already exists, skipped.')
FinalSkip ==
    /\ pc = "var"
    /\ FinalExists
    /\ NextVar
    /\ requested' = {} /\ touched' = {}
    /\ UNCHANGED <<files, fn1, err>>
    /\ EraConfigUnchanged /\ NoMkdir /\ SameRun /\ UNCHANGED <<cmipVars, fnVars>>

\* if not os.path.exists(fn_final): for chunk in chunks:
StartChunks ==
    /\ pc = "var"
    /\ ~FinalExists
    /\ pc' = IF Len(chunks) = 0 THEN "concat" ELSE "chunk"
    /\ ci' = 1
    /\ requested' = {} /\ touched' = {}
    /\ UNCHANGED <<vi, files, fn1, err>>
    /\ EraConfigUnchanged /\ NoMkdir /\ SameRun /\ UNCHANGED <<cmipVars, fnVars>>

\* os.path.exists(re.sub('hr','day',fn0))
ChunkPresent == Exists(files, GateName(chunk))

\* c.retrieve raises (the request fails)
RetrieveFail ==
    /\ pc = "chunk"
    /\ ~ChunkPresent
    /\ requested' = {Fn0(chunk)} /\ touched' = {}
    /\ Raise("RemoteFetchError")
    /\ UNCHANGED <<vi, ci, files, fn1>>
    /\ EraConfigUnchanged /\ NoMkdir /\ SameRun /\ UNCHANGED <<cmipVars, fnVars>>

\* c.retrieve(..., fn0); open, rename, resample, export to fn1, remove fn0
ChunkFetch ==
    /\ pc = "chunk"
    /\ ~ChunkPresent
    /\ requested' = {Fn0(chunk)}
    /\ LET fn0 == Fn0(chunk)
           got == WriteFile(files, fn0, chunk)
       IN  IF EraDir(raw_data_dir) \notin dirs
           THEN \* c.retrieve cannot open fn0: [raw_data_dir]ERA5/ is not there
                /\ touched' = {}
                /\ Raise("FileNotFoundError")
                /\ UNCHANGED <<vi, ci, files, fn1>>
           ELSE
           /\ fn1' = Fn1(chunk)
           /\ IF resamp
              THEN IF DirOf(fn1', raw_data_dir) # EraDir(raw_data_dir)
                   THEN \* to_netcdf: the directory of fn1 does not exist
                        /\ files' = got
                        /\ touched' = {fn0}
                        /\ Raise("FileNotFoundError")
                        /\ UNCHANGED <<vi, ci>>
                   ELSE IF fn1' = fn0
                   THEN \* to_netcdf onto the file tmp is read from
                        \E ok \in BOOLEAN :
                            IF ok
                            THEN /\ files' = RemoveFile(got, fn0)
                                 /\ touched' = {fn0}
                                 /\ err' = err
                                 /\ NextChunk
                            ELSE /\ files' = got
                                 /\ touched' = {fn0}
                                 /\ Raise("PermissionError")
                                 /\ UNCHANGED <<vi, ci>>
                   ELSE /\ files' = RemoveFile(WriteFile(got, fn1', chunk), fn0)
                        /\ touched' = {fn0, fn1'}
                        /\ err' = err
                        /\ NextChunk
              ELSE \* os.remove(fn0), then to_netcdf(fn1) with fn1 = fn0
                   /\ files' = WriteFile(RemoveFile(got, fn0), fn1', chunk)
                   /\ touched' = {fn0}
                   /\ err' = err
                   /\ NextChunk
    /\ EraConfigUnchanged /\ NoMkdir /\ SameRun /\ UNCHANGED <<cmipVars, fnVars>>

\* else: print(fn1+' already exists; skipped.')
ChunkSkip ==
    /\ pc = "chunk"
    /\ ChunkPresent
    /\ IF fn1 = Undefined
       THEN Raise("NameError") /\ UNCHANGED <<vi, ci>>
       ELSE err' = err /\ NextChunk
    /\ requested' = {} /\ touched' = {}
    /\ UNCHANGED <<files, fn1>>
    /\ EraConfigUnchanged /\ NoMkdir /\ SameRun /\ UNCHANGED <<cmipVars, fnVars>>

\* open_mfdataset on the wildcard, to_netcdf(fn_final), remove the components
Concat ==
    /\ pc = "concat"
    /\ LET m == Matched(files)
           combined == CombineByCoords(files, m)
       IN  IF m = {}
           THEN \* OSError: no files to open
                Raise("OSError") /\ touched' = {} /\ UNCHANGED <<vi, ci, files>>
           ELSE IF ~StrictlyIncreasing(combined)
           THEN \* the combined time index is not monotonic
                Raise("ValueError") /\ touched' = {} /\ UNCHANGED <<vi, ci, files>>
           ELSE \E ok \in (IF FnFinal \in m THEN BOOLEAN ELSE {TRUE}) :
                \* fn_final is itself one of the files the dataset is read from:
                \* the write fails or goes through
                IF ~ok
                THEN Raise("PermissionError") /\ touched' = {}
                     /\ UNCHANGED <<vi, ci, files>>
                ELSE LET saved == WriteFile(files, FnFinal, combined)
                         k == FirstMissing(saved)
                     IN  IF k = 0
                         THEN /\ files' = RemoveComponents(saved, Len(chunks))
                              /\ touched' = {FnFinal} \cup
                                   { ComponentName(chunks[j]) : j \in 1..Len(chunks) }
                              /\ err' = err
                              /\ NextVar
                         ELSE /\ files' = RemoveComponents(saved, k - 1)
                              /\ touched' = {FnFinal} \cup
                                   { ComponentName(chunks[j]) : j \in 1..(k - 1) }
                              /\ Raise("FileNotFoundError")
                              /\ UNCHANGED <<vi, ci>>
    /\ requested' = {}
    /\ UNCHANGED fn1
    /\ EraConfigUnchanged /\ NoMkdir /\ SameRun /\ UNCHANGED <<cmipVars, fnVars>>

\* the cell is run again in the same session, with the same parameters
Rerun ==
    /\ pc \in {"done", "failed"}
    /\ pc' = "var" /\ vi' = 1 /\ ci' = 1 /\ err' = "none"
    /\ requested' = {} /\ touched' = {}
    /\ recovering' = (pc = "failed")
    /\ UNCHANGED <<files, fn1>>
    /\ EraConfigUnchanged /\ NoMkdir /\ UNCHANGED <<cmipVars, fnVars>>

\* the notebook is run again from the top in a restarted session, with the
\* same parameters: the globals of the download cell are unbound again
RerunRestarted ==
    /\ pc \in {"done", "failed"}
    /\ fn1 # Undefined
    /\ pc' = "var" /\ vi' = 1 /\ ci' = 1 /\ err' = "none"
    /\ requested' = {} /\ touched' = {}
    /\ recovering' = (pc = "failed")
    /\ fn1' = Undefined
    /\ UNCHANGED files
    /\ EraConfigUnchanged /\ NoMkdir /\ UNCHANGED <<cmipVars, fnVars>>

(***************************************************************************)
(* Idle values of the variables a specification does not use               *)
(***************************************************************************)
CmipIdle ==
    /\ overwrite = FALSE /\ subset_params_all = <<>> /\ cfiles = <<>>
    /\ di = 0 /\ si = 0 /\ cpc = "idle" /\ output_fns = <<>>
    /\ path_exists = <<>> /\ opened = {} /\ removed = {} /\ written = {}
    /\ ds_tmp = FALSE /\ cdirs = {}

EraIdle ==
    /\ raw_data_dir = <<>> /\ resamp = FALSE /\ output_freq_name = "day"
    /\ all_years = <<>> /\ chunk_size = 1 /\ chunks = <<>> /\ files = <<>>
    /\ fn1 = Undefined /\ vi = 0 /\ ci = 0 /\ pc = "idle" /\ err = "none"
    /\ requested = {} /\ touched = {} /\ dirs = {} /\ recovering = FALSE

FnIdle ==
    /\ ds = <<>> /\ ds_in = <<>> /\ subset_params = <<>>
    /\ data_params_all = <<>> /\ subset_query = <<>> /\ fpc = "idle"

(***************************************************************************)
(* SpecEra5                                                                *)
(***************************************************************************)
\* year ranges of the files that may lie in [raw_data_dir]ERA5/ before the
\* first run: the chunks and the whole range of this choice of years, and an
\* earlier choice of years that starts a year before (apart or overlapping)
PreRanges(years, chs) ==
    { <<chs[k][1], chs[k][Len(chs[k])]>> : k \in 1..Len(chs) }
        \cup { <<years[1], years[Len(years)]>>,
               <<years[1] - 1, years[1] - 1>>,
               <<years[1] - 1, years[Len(years)]>> }

Preexisting(years, chs) ==
    { d \in [v : 1..Len(download_vars), f : FreqNames,
             y0 : (FirstYear - 1)..(FirstYear + MaxYears - 1),
             y1 : (FirstYear - 1)..(FirstYear + MaxYears - 1)] :
        <<d.y0, d.y1>> \in PreRanges(years, chs) }

PreName(dir, d) == EraName(dir, download_vars[d.v], d.f, d.y0, d.y1)

\* the subsets of S with at most k elements
RECURSIVE UpTo(_, _)
UpTo(S, k) ==
    IF k = 0 THEN {{}}
    ELSE LET less == UpTo(S, k - 1)
         IN  less \cup { s \cup {x} : s \in less, x \in S }

\* the disk holding the files pre, each with the years its name stands for
DiskOf(dir, pre) ==
    [p \in { PreName(dir, d) : d \in pre } |->
        LET d == CHOOSE d \in pre : PreName(dir, d) = p
        IN  Arange(d.y0, d.y1 + 1)]

InitEra5 ==
    /\ raw_data_dir \in RawDataDirs
    /\ resamp \in BOOLEAN
    /\ output_freq_name \in FreqNames
    /\ \E n \in 1..MaxYears : all_years = Arange(FirstYear, FirstYear + n)
    /\ chunk_size \in 1..MaxChunkSize
    /\ chunks = Chunks(all_years, chunk_size)
    /\ \E pre \in UpTo(Preexisting(all_years, chunks), MaxPreexisting) :
          /\ files = DiskOf(raw_data_dir, pre)
          \* [raw_data_dir] is there (it is made in the setup cells);
          \* [raw_data_dir]ERA5/ is there when files lie in it
          /\ dirs \in (IF pre = {} THEN {{}, {EraDir(raw_data_dir)}}
                                   ELSE {{EraDir(raw_data_dir)}})
    /\ fn1 = Undefined
    /\ vi = 1 /\ ci = 1 /\ pc = "var" /\ err = "none"
    /\ requested = {} /\ touched = {}
    /\ recovering = FALSE
    /\ CmipIdle /\ FnIdle

NextEra5 ==
    \/ FinalSkip
    \/ StartChunks
    \/ RetrieveFail
    \/ ChunkFetch
    \/ ChunkSkip
    \/ Concat
    \/ Rerun
    \/ RerunRestarted

SpecEra5 == InitEra5 /\ [][NextEra5]_vars

(***************************************************************************)
(* SpecChunks: the cell that breaks the years up into chunks               *)
(***************************************************************************)
InitChunks ==
    /\ \E n \in 0..MaxRangeLen : all_years = Arange(FirstYear, FirstYear + n)
    /\ chunk_size \in 1..MaxChunkLen
    /\ chunks = <<>>
    /\ pc = "setup"
    /\ raw_data_dir = <<>> /\ resamp = FALSE /\ output_freq_name = "day"
    /\ files = <<>> /\ fn1 = Undefined /\ vi = 0 /\ ci = 0 /\ err = "none"
    /\ requested = {} /\ touched = {} /\ dirs = {} /\ recovering = FALSE
    /\ CmipIdle /\ FnIdle

\* chunks = [all_years[i:i + chunk_size] for i in range(0, len(all_years), chunk_size)]
BreakUpYears ==
    /\ pc = "setup"
    /\ chunks' = Chunks(all_years, chunk_size)
    /\ pc' = "chunked"
    /\ UNCHANGED <<raw_data_dir, resamp, output_freq_name, all_years, chunk_size,
                   files, fn1, vi, ci, err, requested, touched, dirs,
                   recovering>>
    /\ UNCHANGED <<cmipVars, fnVars>>

NextChunks == BreakUpYears

SpecChunks == InitChunks /\ [][NextChunks]_vars

(***************************************************************************)
(* CMIP6: parameters of the notebook                                       *)
(***************************************************************************)
\* data_params['other']['plev_subset'] of the download specification that
\* asks for one pressure level
plev_subset == [plev |-> 85000, outputfn |-> "ua850"]

\* the source datasets the two loops (data_params, url) go through;
\* source_id is url.split('/')[5]; has_other: 'other' in data_params.keys();
\* time_range: first and last date of the time axis of the remote grid;
\* plev: the pressure levels of the remote grid
Datasets ==
    << [variable_id |-> "pr", table_id |-> "day", source_id |-> "CanESM5",
        experiment_id |-> "historical", member_id |-> "r1i1p1f1",
        has_other |-> FALSE, plev |-> <<>>,
        time_range |-> << <<1850, 1, 1>>, <<2014, 12, 31>> >>],
       [variable_id |-> "pr", table_id |-> "day", source_id |-> "NorCPM1",
        experiment_id |-> "historical", member_id |-> "r1i1p1f1",
        has_other |-> FALSE, plev |-> <<>>,
        time_range |-> << <<1850, 1, 1>>, <<2014, 12, 31>> >>],
       [variable_id |-> "ua", table_id |-> "day", source_id |-> "CanESM5",
        experiment_id |-> "historical", member_id |-> "r1i1p1f1",
        has_other |-> TRUE, plev |-> <<100000, 92500, 70000>>,
        time_range |-> << <<1850, 1, 1>>, <<2014, 12, 31>> >>] >>

Date(y, m, d) == <<y, "-", m, "-", d>>

\* subset specifications; the second differs from the first in lat only, the
\* last asks for years the historical grids do not have
SubsetSpecs ==
    { [lat |-> <<-38, 40>>, fn_suffix |-> "_Africa",
       time |-> <<Date("1979", "01", "01"), Date("2014", "12", "31")>>],
      [lat |-> <<0, 40>>, fn_suffix |-> "_Africa",
       time |-> <<Date("1979", "01", "01"), Date("2014", "12", "31")>>],
      [lat |-> <<0, 40>>, fn_suffix |-> "_Asia",
       time |-> <<Date("1979", "01", "01"), Date("2014", "12", "31")>>],
      [lat |-> <<0, 40>>, fn_suffix |-> "_Asia",
       time |-> <<Date("2015", "01", "01"), Date("2100", "12", "31")>>] }

cmip_raw_data_dir == <<"/data/">>

\* list.index(x): the first position holding a value equal to x
Index(list, x) == CHOOSE i \in 1..Len(list) :
                      list[i] = x /\ \A j \in 1..(i - 1) : list[j] # x

\* [raw_data_dir][source]/[var]_[table]_[source]_[exp]_[member]_[t0]-[t1][suffix].nc
\* [raw_data_dir][source]/
ModelDir(d) == cmip_raw_data_dir \o <<d.source_id, "/">>

PlainOutputFn(d, sp) ==
    ModelDir(d)
        \o <<d.variable_id, "_", d.table_id, "_", d.source_id, "_",
             d.experiment_id, "_", d.member_id, "_">>
        \o ReSub("-", "", sp.time[1]) \o <<"-">> \o ReSub("-", "", sp.time[2])
        \o <<sp.fn_suffix, ".nc">>

\* with a plev_subset the variable name is replaced by its outputfn
OutputFn(d, sp) ==
    IF d.has_other
    THEN ReSub(d.variable_id, plev_subset.outputfn, PlainOutputFn(d, sp))
    ELSE PlainOutputFn(d, sp)

\* the list output_fns after the loop that fills it (it starts as [None]*N)
OutputFns(d, list) ==
    [j \in 1..Len(list) |->
        IF Index(list, list[j]) = j THEN OutputFn(d, list[j]) ELSE <<None>>]

\* the list path_exists after the loop that fills it
PathExists(d, list, f) ==
    [j \in 1..Len(list) |->
        IF Index(list, list[j]) = j THEN Exists(f, OutputFn(d, list[j])) ELSE None]

\* all(...) and any(...) of a list of True / False / None
all(l) == \A i \in 1..Len(l) : l[i] = TRUE
any(l) == \E i \in 1..Len(l) : l[i] = TRUE

\* the output file names of source dataset n
Candidates(n) ==
    { OutputFn(Datasets[n], subset_params_all[i]) : i \in 1..Len(subset_params_all) }

(***************************************************************************)
(* fix_lons                                                                *)
(* A grid is its longitude coordinate (whole degrees) and, per position,   *)
(* the column of the source grid that stands there.                        *)
(***************************************************************************)
\* x // o of numpy; a zero divisor gives no number (inf, nan or 0 with a
\* warning), which is never equal to 1
FloorDiv(x, o) == IF o > 0 THEN x \div o ELSE (-x) \div (-o)
QuotientIs(x, o, q) == o # 0 /\ FloorDiv(x, o) = q

\* ds.roll(lon=n, roll_coords=True): position i takes what stood at i - n
Roll(g, n) ==
    LET N == Len(g.lon)
    IN  [lon |-> [i \in 1..N |-> g.lon[((i - 1 - n) % N) + 1]],
         col |-> [i \in 1..N |-> g.col[((i - 1 - n) % N) + 1]]]

\* ds.assign_coords(lon=(((ds.lon + 180) % 360) - 180))
To180(g) == [g EXCEPT !.lon = [i \in 1..Len(g.lon) |-> ((g.lon[i] + 180) % 360) - 180]]
\* ds.assign_coords(lon = ds.lon % 360)
To360(g) == [g EXCEPT !.lon = [i \in 1..Len(g.lon) |-> g.lon[i] % 360]]

\* (mutant of FirstLonNotNearMinus180: the tolerance is lost)
MutFirstLonNotNearMinus180(g) == g.lon[1] > -180
\* if ds.lon[0] > -175
FirstLonNotNearMinus180(g) == g.lon[1] > -175

\* ((ds.lon // subset_params['lon_origin'])==1).values.nonzero()[0]
OriginHits(g, p) == { i \in 1..Len(g.lon) : QuotientIs(g.lon[i], p.lon_origin, 1) }

SetMin(S) == CHOOSE x \in S : \A y \in S : x <= y

\* fix_lons raises IndexError: [0] of an empty array
fix_lons_raises(g, p) == p.lon_range = 360 /\ OriginHits(To360(g), p) = {}

fix_lons(g, p) ==
    IF p.lon_range = 180
    THEN LET a == IF \E i \in 1..Len(g.lon) : g.lon[i] > 180 THEN To180(g) ELSE g
         IN  IF FirstLonNotNearMinus180(a) THEN Roll(a, Len(a.lon) \div 2) ELSE a
    ELSE IF p.lon_range = 360
    THEN LET a == To360(g)
         IN  Roll(a, -(SetMin(OriginHits(a, p)) - 1))
    ELSE g

(***************************************************************************)
(* SpecFixLons: fix_lons called on a grid, and again on what it returned   *)
(***************************************************************************)
MaxLon == 6            \* most columns of a grid of SpecFixLons

\* numbers of columns that give a spacing in whole degrees
GridSizes == { n \in 3..MaxLon : 360 % n = 0 }
\* distance of the first longitude from the start of the range
GridOffsets == {0, 2, 5, 6}
\* evenly spaced global grids, counted from -180 or from 0
Grid(n, x0) ==
    [lon |-> [i \in 1..n |-> x0 + (i - 1) * (360 \div n)],
     col |-> [i \in 1..n |-> i]]
Grids == { Grid(n, base + off) : n \in GridSizes, base \in {-180, 0},
                                 off \in GridOffsets }
LonRanges == {180, 360}
LonOrigins == {-180, 0, 45, 100, 200}

InitFixLons ==
    /\ ds \in Grids
    /\ ds_in = ds
    /\ subset_params \in [lon_range : LonRanges, lon_origin : LonOrigins]
    /\ fpc = "call"
    /\ data_params_all = <<>> /\ subset_query = <<>>
    /\ EraIdle /\ CmipIdle

\* ds = fix_lons(ds, subset_params)
FixLons ==
    /\ fpc \in {"call", "returned"}
    /\ ~fix_lons_raises(ds, subset_params)
    /\ ds' = fix_lons(ds, subset_params)
    /\ fpc' = "returned"
    /\ UNCHANGED <<ds_in, subset_params, data_params_all, subset_query>>
    /\ UNCHANGED <<eraVars, cmipVars>>

FixLonsRaise ==
    /\ fpc \in {"call", "returned"}
    /\ fix_lons_raises(ds, subset_params)
    /\ fpc' = "raised"
    /\ UNCHANGED <<ds, ds_in, subset_params, data_params_all, subset_query>>
    /\ UNCHANGED <<eraVars, cmipVars>>

NextFixLons == FixLons \/ FixLonsRaise

SpecFixLons == InitFixLons /\ [][NextFixLons]_vars

(***************************************************************************)
(* Time subsetting                                                         *)
(* A time axis is a sequence of dates <<year, month, day>>, one per day;   *)
(* the dates of subset_params['time'] are strings, kept as tokens.         *)
(***************************************************************************)
Pad2(n) == IF n < 10 THEN "0" \o ToString(n) ELSE ToString(n)
\* the date a string 'YYYY-MM-DD' stands for
ParseDate(t) ==
    << CHOOSE y \in 1900..2100 : ToString(y) = t[1],
       CHOOSE m \in 1..12 : Pad2(m) = t[3],
       CHOOSE d \in 1..31 : Pad2(d) = t[5] >>

\* re.sub('-31','-30', ...): a "31" that follows a "-"
ReSubDay31(t) ==
    [i \in 1..Len(t) |-> IF i > 1 /\ t[i] = "31" /\ t[i - 1] = "-" THEN "30" ELSE t[i]]

DateLE(a, b) ==
    \/ a[1] < b[1]
    \/ a[1] = b[1] /\ a[2] < b[2]
    \/ a[1] = b[1] /\ a[2] = b[2] /\ a[3] <= b[3]

\* the elements of s at the positions in I, in the order they have in s
Keep(s, I) ==
    LET J == I \cap (1..Len(s))
        at(k) == CHOOSE i \in J : Cardinality({ j \in J : j <= i }) = k
    IN  [k \in 1..Cardinality(J) |-> s[at(k)]]

\* .sel(time=slice(a, b)) on a sorted daily axis: the steps from a to b
SelTime(time, a, b) ==
    Keep(time, { i \in 1..Len(time) : DateLE(a, time[i]) /\ DateLE(time[i], b) })

\* (ds.time.max().dt.day==30) | (type(ds.time.values[0]) == Datetime360Day)
Is30DayGrid(g) ==
    g.time[Len(g.time)][3] = 30 \/ g.calendar = "360_day"

\* the time axis after the subsetting by time
TimeSubsetOf(g, p) ==
    IF Is30DayGrid(g)
    THEN SelTime(g.time, ParseDate(p.time[1]), ParseDate(ReSubDay31(p.time[2])))
    ELSE SelTime(g.time, ParseDate(p.time[1]), ParseDate(p.time[2]))

(***************************************************************************)
(* SpecTimeSubset: the subsetting by time of one grid                      *)
(***************************************************************************)
GridYear == 2014
GridMonths == 10..12
Calendars == {"360_day", "standard"}
MonthLen(cal, m) == IF cal = "360_day" \/ m = 11 THEN 30 ELSE 31
\* the daily axis from October 1st to the date last
DayNo(cal, m, d) == IF m = 10 THEN d
                    ELSE IF m = 11 THEN MonthLen(cal, 10) + d
                    ELSE MonthLen(cal, 10) + MonthLen(cal, 11) + d
TimeAxis(cal, last) ==
    [i \in 1..DayNo(cal, last[1], last[2]) |->
        LET md == CHOOSE md \in GridMonths \X (1..31) :
                      md[2] <= MonthLen(cal, md[1]) /\ DayNo(cal, md[1], md[2]) = i
        IN  <<GridYear, md[1], md[2]>>]
\* month and day of the last time step
LastSteps == { <<10, 30>>, <<10, 31>>, <<11, 29>>, <<11, 30>>, <<12, 30>>, <<12, 31>> }
TimeGrids ==
    UNION { { [calendar |-> cal, time |-> TimeAxis(cal, last)] :
                last \in { l \in LastSteps : l[2] <= MonthLen(cal, l[1]) } } :
            cal \in Calendars }
WindowStarts == { Date("2014", "10", "01"), Date("2014", "10", "15") }
WindowEnds == { Date("2014", "10", "30"), Date("2014", "10", "31"),
                Date("2014", "11", "30"), Date("2014", "12", "30"),
                Date("2014", "12", "31") }

InitTimeSubset ==
    /\ ds \in TimeGrids
    /\ ds_in = ds
    /\ subset_params \in [time : WindowStarts \X WindowEnds]
    /\ fpc = "call"
    /\ data_params_all = <<>> /\ subset_query = <<>>
    /\ EraIdle /\ CmipIdle

\* ds_tmp = ds_tmp.sel(time=slice(...))
TimeSubset ==
    /\ fpc = "call"
    /\ ds' = [ds EXCEPT !.time = TimeSubsetOf(ds, subset_params)]
    /\ fpc' = "returned"
    /\ UNCHANGED <<ds_in, subset_params, data_params_all, subset_query>>
    /\ UNCHANGED <<eraVars, cmipVars>>

NextTimeSubset == TimeSubset

SpecTimeSubset == InitTimeSubset /\ [][NextTimeSubset]_vars

(***************************************************************************)
(* Spatial subsetting on one-dimensional lat/lon                           *)
(* A grid is its longitude coordinate with the source column per position  *)
(* and its latitude coordinate with the source row per position.           *)
(***************************************************************************)
Abs(x) == IF x < 0 THEN -x ELSE x

\* the longitude part of a grid, and a grid with that part replaced
LonPart(g) == [lon |-> g.lon, col |-> g.col]
WithLonPart(g, f) == [g EXCEPT !.lon = f.lon, !.col = f.col]

\* if np.abs(ds_tmp.lon[0]-subset_params['lon_origin'])>5
FirstLonFarFromOrigin(g, p) == Abs(g.lon[1] - p.lon_origin) > 5

\* (ds_tmp.lon // (subset_params['lon_origin']) == 0).values.nonzero()[0]
\* (the coordinate is a float array: a zero divisor gives inf or nan)
BelowOriginHits(g, p) == { i \in 1..Len(g.lon) : QuotientIs(g.lon[i], p.lon_origin, 0) }

\* the cut-off raises IndexError: [0] of an empty array
cutoff_raises(g, p) == FirstLonFarFromOrigin(g, p) /\ BelowOriginHits(g, p) = {}

\* ds_tmp.isel(lon=np.arange(0, first hit))
Cutoff(g, p) ==
    IF FirstLonFarFromOrigin(g, p)
    THEN LET n == SetMin(BelowOriginHits(g, p)) - 1
         IN  [g EXCEPT !.lon = SubSeq(g.lon, 1, n), !.col = SubSeq(g.col, 1, n)]
    ELSE g

IsIncreasing(s) == \A i \in 1..(Len(s) - 1) : s[i] < s[i + 1]

\* the positions .sel(x=slice(a, b)) keeps on the index s.  On an
\* increasing index these are the labels from a to b; on an index that is
\* not monotonic both bounds have to be labels of the index, and the
\* positions from the one to the other are kept.
SlicePositions(s, a, b) ==
    IF IsIncreasing(s)
    THEN { i \in 1..Len(s) : a <= s[i] /\ s[i] <= b }
    ELSE LET ia == CHOOSE i \in 1..Len(s) : s[i] = a
             ib == CHOOSE i \in 1..Len(s) : s[i] = b
         IN  ia..ib
\* .sel raises KeyError: a bound that is no label of a non-monotonic index
slice_raises(s, a, b) ==
    /\ ~IsIncreasing(s)
    /\ \/ \A i \in 1..Len(s) : s[i] # a
       \/ \A i \in 1..Len(s) : s[i] # b

sel_raises(g, p) ==
    \/ slice_raises(g.lat, p.lat[1], p.lat[2])
    \/ slice_raises(g.lon, p.lon[1], p.lon[2])

\* ds_tmp.sel(lat=slice(*subset_params['lat']), lon=slice(*subset_params['lon']))
SelLatLon(g, p) ==
    LET I == SlicePositions(g.lat, p.lat[1], p.lat[2])
        J == SlicePositions(g.lon, p.lon[1], p.lon[2])
    IN  [lat |-> Keep(g.lat, I), row |-> Keep(g.row, I),
         lon |-> Keep(g.lon, J), col |-> Keep(g.col, J)]

(***************************************************************************)
(* SpecSpatial: fix_lons, the cut-off and the range selection on one grid  *)
(***************************************************************************)
\* the latitudes of the grids, south to north
LatAxis == <<-60, -20, 20, 60>>
SpatialGrids ==
    { [lon |-> g.lon, col |-> g.col,
       lat |-> LatAxis, row |-> [i \in 1..Len(LatAxis) |-> i]] : g \in Grids }
SpatialOrigins == {-180, 0, 60, 120}
LatWindows == { <<-38, 40>>, <<-20, 60>>, <<25, 50>> }
LonWindows == { <<-20, 54>>, <<-120, 60>>, <<60, 180>>, <<125, 300>>, <<0, 359>> }

InitSpatial ==
    /\ ds \in SpatialGrids
    /\ ds_in = ds
    /\ subset_params \in [lon_range : LonRanges, lon_origin : SpatialOrigins,
                          lat : LatWindows, lon : LonWindows]
    /\ fpc = "call"
    /\ data_params_all = <<>> /\ subset_query = <<>>
    /\ EraIdle /\ CmipIdle

\* ds_tmp = fix_lons(ds,subset_params)
SpatialFixLons ==
    /\ fpc = "call"
    /\ ~fix_lons_raises(LonPart(ds), subset_params)
    /\ ds' = WithLonPart(ds, fix_lons(LonPart(ds), subset_params))
    /\ fpc' = "fixed"
    /\ UNCHANGED <<ds_in, subset_params, data_params_all, subset_query>>
    /\ UNCHANGED <<eraVars, cmipVars>>

SpatialFixLonsRaise ==
    /\ fpc = "call"
    /\ fix_lons_raises(LonPart(ds), subset_params)
    /\ fpc' = "raised"
    /\ UNCHANGED <<ds, ds_in, subset_params, data_params_all, subset_query>>
    /\ UNCHANGED <<eraVars, cmipVars>>

\* the cut-off of the longitudes below lon_origin
SpatialCutoff ==
    /\ fpc = "fixed"
    /\ ~cutoff_raises(ds, subset_params)
    /\ ds' = Cutoff(ds, subset_params)
    /\ fpc' = "cut"
    /\ UNCHANGED <<ds_in, subset_params, data_params_all, subset_query>>
    /\ UNCHANGED <<eraVars, cmipVars>>

SpatialCutoffRaise ==
    /\ fpc = "fixed"
    /\ cutoff_raises(ds, subset_params)
    /\ fpc' = "raised"
    /\ UNCHANGED <<ds, ds_in, subset_params, data_params_all, subset_query>>
    /\ UNCHANGED <<eraVars, cmipVars>>

\* the subsetting by space
SpatialSel ==
    /\ fpc = "cut"
    /\ ~sel_raises(ds, subset_params)
    /\ ds' = SelLatLon(ds, subset_params)
    /\ fpc' = "returned"
    /\ UNCHANGED <<ds_in, subset_params, data_params_all, subset_query>>
    /\ UNCHANGED <<eraVars, cmipVars>>

SpatialSelRaise ==
    /\ fpc = "cut"
    /\ sel_raises(ds, subset_params)
    /\ fpc' = "raised"
    /\ UNCHANGED <<ds, ds_in, subset_params, data_params_all, subset_query>>
    /\ UNCHANGED <<eraVars, cmipVars>>

NextSpatial ==
    \/ SpatialFixLons \/ SpatialFixLonsRaise
    \/ SpatialCutoff \/ SpatialCutoffRaise
    \/ SpatialSel \/ SpatialSelRaise

SpecSpatial == InitSpatial /\ [][NextSpatial]_vars

(***************************************************************************)
(* Fix of the coordinate doubling                                          *)
(* A grid is, per row: the latitude (in units of 1e-11 degrees from a      *)
(* reference latitude), whether the main variable is NaN at                *)
(* isel(lon=1, time=1), and the row of the source grid that stands there.  *)
(***************************************************************************)
\* np.round(ds.lat.values, 10)
Round10(x) == ((x + 5) \div 10) * 10

\* len(np.unique(np.round(ds.lat.values,10))) != ds.dims['lat']
HasDuplicateLat(g) ==
    Cardinality({ Round10(g.lat[i]) : i \in 1..Len(g.lat) }) # Len(g.lat)

\* ds.isel(lat=(~np.isnan(ds.isel(lon=1,time=1)[variable_id].values)).nonzero()[0])
DropNanRows(g) ==
    LET I == { i \in 1..Len(g.lat) : ~g.nan[i] }
    IN  [lat |-> Keep(g.lat, I), nan |-> Keep(g.nan, I), row |-> Keep(g.row, I)]

FixLatDoubling(g) == IF HasDuplicateLat(g) THEN DropNanRows(g) ELSE g

(***************************************************************************)
(* SpecLatDoubling: the fix of the coordinate doubling on one grid         *)
(***************************************************************************)
MaxRows == 3           \* most rows of a grid of SpecLatDoubling

\* latitudes: 10 and 11 are one value after rounding, as are 20 and 21
LatValues == {10, 11, 20, 21, 30}
InitLatDoubling ==
    /\ \E n \in 2..MaxRows :
          \E r \in [1..n -> LatValues \X BOOLEAN] :
              /\ \A i \in 1..(n - 1) : r[i][1] < r[i + 1][1]
              /\ ds = [lat |-> [i \in 1..n |-> r[i][1]],
                       nan |-> [i \in 1..n |-> r[i][2]],
                       row |-> [i \in 1..n |-> i]]
    /\ ds_in = ds
    /\ subset_params = <<>>
    /\ fpc = "call"
    /\ data_params_all = <<>> /\ subset_query = <<>>
    /\ EraIdle /\ CmipIdle

\* if len(np.unique(np.round(ds.lat.values,10))) != ds.dims['lat']: ds = ...
LatDoubling ==
    /\ fpc = "call"
    /\ ds' = FixLatDoubling(ds)
    /\ fpc' = "returned"
    /\ UNCHANGED <<ds_in, subset_params, data_params_all, subset_query>>
    /\ UNCHANGED <<eraVars, cmipVars>>

NextLatDoubling == LatDoubling

SpecLatDoubling == InitLatDoubling /\ [][NextLatDoubling]_vars

(***************************************************************************)
(* The query for all download specifications                               *)
(* A query is the sequence of its equalities <<key, value>> joined by      *)
(* "and" (conj) and the sequence of its "or" groups, each a sequence of    *)
(* equalities (groups).                                                    *)
(***************************************************************************)
\* list(data_params_all[0].keys())
Keys == <<"experiment_id", "table_id", "variable_id", "member_id">>
KeyValues ==
    [experiment_id |-> {"historical", "ssp585"}, table_id |-> {"day", "Amon"},
     variable_id |-> {"pr", "tas"}, member_id |-> {"r1i1p1f1", "r2i1p1f1"}]
\* a download specification, and a record of the catalog
DataParams ==
    [experiment_id : KeyValues.experiment_id, table_id : KeyValues.table_id,
     variable_id : KeyValues.variable_id, member_id : KeyValues.member_id]

\* source_calls.nonzero()[0]: the positions of the keys with one value
\* (len(np.unique([x[key] for x in data_params_all]))==1)
SourceCalls(dpa) ==
    { i \in 1..Len(Keys) :
        Cardinality({ dpa[j][Keys[i]] : j \in 1..Len(dpa) }) = 1 }
\* (source_calls-1).nonzero()[0]
OtherCalls(dpa) == (1..Len(Keys)) \ SourceCalls(dpa)

\* itemgetter() without an index: TypeError
QueryTypeError(dpa) == SourceCalls(dpa) = {}
\* itemgetter with one index gives the key itself, "for k in" goes through
\* its letters: data_params_all[0][letter] is a KeyError
QueryKeyError(dpa) == Cardinality(SourceCalls(dpa)) = 1

\* ' or '.join([k+" == '"+data_params[k]+"'" for data_params in data_params_all])
OrGroup(dpa, k) == [j \in 1..Len(dpa) |-> <<k, dpa[j][k]>>]

SubsetQuery(dpa) ==
    LET same == Keep(Keys, SourceCalls(dpa))
        diff == Keep(Keys, OtherCalls(dpa))
    IN  [conj |-> [i \in 1..Len(same) |-> <<same[i], dpa[1][same[i]]>>],
         groups |-> [i \in 1..Len(diff) |-> OrGroup(dpa, diff[i])]]

(***************************************************************************)
(* SpecQuery: the cell that builds subset_query                            *)
(***************************************************************************)
MaxSpecs == 2          \* longest data_params_all of SpecQuery

InitQuery ==
    /\ data_params_all \in UNION { [1..n -> DataParams] : n \in 1..MaxSpecs }
    /\ subset_query = <<>>
    /\ fpc = "call"
    /\ ds = <<>> /\ ds_in = <<>> /\ subset_params = <<>>
    /\ EraIdle /\ CmipIdle

BuildQuery ==
    /\ fpc = "call"
    /\ ~QueryTypeError(data_params_all) /\ ~QueryKeyError(data_params_all)
    /\ subset_query' = SubsetQuery(data_params_all)
    /\ fpc' = "returned"
    /\ UNCHANGED <<ds, ds_in, subset_params, data_params_all>>
    /\ UNCHANGED <<eraVars, cmipVars>>

BuildQueryTypeError ==
    /\ fpc = "call"
    /\ QueryTypeError(data_params_all)
    /\ fpc' = "raised"
    /\ UNCHANGED <<ds, ds_in, subset_params, data_params_all, subset_query>>
    /\ UNCHANGED <<eraVars, cmipVars>>

BuildQueryKeyError ==
    /\ fpc = "call"
    /\ QueryKeyError(data_params_all)
    /\ fpc' = "raised"
    /\ UNCHANGED <<ds, ds_in, subset_params, data_params_all, subset_query>>
    /\ UNCHANGED <<eraVars, cmipVars>>

NextQuery == BuildQuery \/ BuildQueryTypeError \/ BuildQueryKeyError

SpecQuery == InitQuery /\ [][NextQuery]_vars

(***************************************************************************)
(* CMIP6: the process loop                                                 *)
(***************************************************************************)
CmipConfigUnchanged == UNCHANGED <<overwrite, subset_params_all>>

\* the window of sp and the time axis of the grid of d have no step in common
\* (.sel(time=slice(...)) then gives a grid with no time step)
EmptyWindow(d, sp) ==
    ~(/\ DateLE(ParseDate(sp.time[1]), d.time_range[2])
      /\ DateLE(d.time_range[1], ParseDate(ReSubDay31(sp.time[2]))))

\* if not os.path.exists(...): os.mkdir(...)
Mkdir(D, dir) == D \cup {dir}

CRaise == cpc' = "failed"

NextDataset ==
    /\ di' = di + 1
    /\ si' = 1
    /\ cpc' = IF di + 1 > Len(Datasets) THEN "done" ELSE "gate"

\* (mutant of SkipDataset: the "not" is lost)
MutSkipDataset == overwrite /\ all(PathExists(Datasets[di], subset_params_all, cfiles))
\* if (not overwrite) & all(path_exists)
SkipDataset == (~overwrite) /\ all(PathExists(Datasets[di], subset_params_all, cfiles))

\* the loop of os.remove over the subsets whose path existed: the disk after
\* position i.., and whether an os.remove raised (the file was gone already)
RECURSIVE RemoveLoop(_, _, _, _)
RemoveLoop(f, i, fns, ex) ==
    IF i > Len(subset_params_all) THEN [f |-> f, raised |-> FALSE]
    ELSE LET idx == Index(subset_params_all, subset_params_all[i])
         IN  IF ex[idx] = TRUE
             THEN IF Exists(f, fns[idx])
                  THEN RemoveLoop(RemoveFile(f, fns[idx]), i + 1, fns, ex)
                  ELSE [f |-> f, raised |-> TRUE]
             ELSE RemoveLoop(f, i + 1, fns, ex)

\* (mutant of GateRemove: nothing is removed)
MutGateRemove(f, fns, ex) == [f |-> f, raised |-> FALSE]
GateRemove(f, fns, ex) == RemoveLoop(f, 1, fns, ex)

\* warnings.warn('All files already created for ...'); continue
GateSkip ==
    /\ cpc = "gate"
    /\ SkipDataset
    /\ output_fns' = OutputFns(Datasets[di], subset_params_all)
    /\ path_exists' = PathExists(Datasets[di], subset_params_all, cfiles)
    /\ NextDataset
    /\ UNCHANGED <<cfiles, opened, removed, written, ds_tmp, cdirs>>
    /\ CmipConfigUnchanged /\ UNCHANGED <<eraVars, fnVars>>

\* elif any(path_exists): if overwrite: os.remove(...) for the existing ones
GateProceed ==
    /\ cpc = "gate"
    /\ ~SkipDataset
    /\ output_fns' = OutputFns(Datasets[di], subset_params_all)
    /\ path_exists' = PathExists(Datasets[di], subset_params_all, cfiles)
    /\ IF any(path_exists') /\ overwrite
       THEN LET r == GateRemove(cfiles, output_fns', path_exists')
            IN  /\ cfiles' = r.f
                /\ removed' = removed \cup (DOMAIN cfiles \ DOMAIN r.f)
                /\ cpc' = IF r.raised THEN "failed" ELSE "open"
       ELSE /\ UNCHANGED <<cfiles, removed>>
            /\ cpc' = "open"
    /\ UNCHANGED <<di, si, opened, written, ds_tmp, cdirs>>
    /\ CmipConfigUnchanged /\ UNCHANGED <<eraVars, fnVars>>

\* ds = xr.open_zarr(fs.get_mapper(url), consolidated=True), renames, fixes
OpenZarr ==
    /\ cpc = "open"
    /\ opened' = opened \cup {di}
    /\ cpc' = "subset"
    /\ si' = 1
    /\ UNCHANGED <<di, cfiles, output_fns, path_exists, removed, written, ds_tmp,
                   cdirs>>
    /\ CmipConfigUnchanged /\ UNCHANGED <<eraVars, fnVars>>

\* the remote store cannot be read
OpenFail ==
    /\ cpc = "open"
    /\ opened' = opened \cup {di}
    /\ CRaise
    /\ UNCHANGED <<di, si, cfiles, output_fns, path_exists, removed, written,
                   ds_tmp, cdirs>>
    /\ CmipConfigUnchanged /\ UNCHANGED <<eraVars, fnVars>>

AfterSubset ==
    /\ si' = si + 1
    /\ cpc' = IF si + 1 > Len(subset_params_all) THEN "end" ELSE "subset"

\* (mutant of SkipSubset: the test is lost)
MutSkipSubset == FALSE
\* if (not overwrite) & path_exists[...]: ... already exists; skipped.
SkipSubset ==
    (~overwrite) /\
        path_exists[Index(subset_params_all, subset_params_all[si])] = TRUE

SubsetSkip ==
    /\ cpc = "subset"
    /\ SkipSubset
    /\ AfterSubset
    /\ UNCHANGED <<di, cfiles, output_fns, path_exists, opened, removed, written,
                   ds_tmp, cdirs>>
    /\ CmipConfigUnchanged /\ UNCHANGED <<eraVars, fnVars>>

\* mkdir, fix_lons, subsetting, ds_tmp.to_netcdf(output_fns[...]); the file
\* holds no time step ("empty") when the window misses the time axis
SubsetSave ==
    /\ cpc = "subset"
    /\ ~SkipSubset
    /\ ~Datasets[di].has_other
    /\ cdirs' = Mkdir(cdirs, ModelDir(Datasets[di]))
    /\ LET fn == output_fns[Index(subset_params_all, subset_params_all[si])]
       IN  /\ cfiles' = WriteFile(cfiles, fn,
                            IF EmptyWindow(Datasets[di], subset_params_all[si])
                            THEN "empty" ELSE "new")
           /\ written' = written \cup {fn}
    /\ ds_tmp' = TRUE
    /\ AfterSubset
    /\ UNCHANGED <<di, output_fns, path_exists, opened, removed>>
    /\ CmipConfigUnchanged /\ UNCHANGED <<eraVars, fnVars>>

\* mkdir, fix_lons, subsetting; then
\* if 'plev_subset' in data_params['other'].keys:
\* TypeError: argument of type 'builtin_function_or_method' is not iterable
SubsetPlev ==
    /\ cpc = "subset"
    /\ ~SkipSubset
    /\ Datasets[di].has_other
    /\ cdirs' = Mkdir(cdirs, ModelDir(Datasets[di]))
    /\ ds_tmp' = TRUE
    /\ CRaise
    /\ UNCHANGED <<di, si, cfiles, output_fns, path_exists, opened, removed,
                   written>>
    /\ CmipConfigUnchanged /\ UNCHANGED <<eraVars, fnVars>>

\* an exception while the subset is prepared (after the mkdir)
SubsetFail ==
    /\ cpc = "subset"
    /\ ~SkipSubset
    /\ cdirs' = Mkdir(cdirs, ModelDir(Datasets[di]))
    /\ CRaise
    /\ UNCHANGED <<di, si, cfiles, output_fns, path_exists, opened, removed,
                   written, ds_tmp>>
    /\ CmipConfigUnchanged /\ UNCHANGED <<eraVars, fnVars>>

\* del ds, ds_tmp, subset_params
EndDataset ==
    /\ cpc = "end"
    /\ IF ds_tmp
       THEN ds_tmp' = FALSE /\ NextDataset
       ELSE \* NameError: name 'ds_tmp' is not defined
            CRaise /\ UNCHANGED <<di, si, ds_tmp>>
    /\ UNCHANGED <<cfiles, output_fns, path_exists, opened, removed, written,
                   cdirs>>
    /\ CmipConfigUnchanged /\ UNCHANGED <<eraVars, fnVars>>

(***************************************************************************)
(* SpecCmip6                                                               *)
(***************************************************************************)
\* lists of pairwise different subset specifications
SubsetLists ==
    { l \in UNION { [1..n -> SubsetSpecs] : n \in 1..MaxSubsets } :
        \A i, j \in 1..Len(l) : i # j => l[i] # l[j] }

OtherFile == cmip_raw_data_dir \o <<"CanESM5", "/", "notes.txt">>

InitCmip6 ==
    /\ overwrite \in BOOLEAN
    /\ subset_params_all \in SubsetLists
    \* the files there before: output files of this subset_params_all, and
    \* another file; a model directory is there when a file lies in it
    /\ \E pre \in SUBSET (UNION { Candidates(n) : n \in 1..Len(Datasets) }
                          \cup {OtherFile}) :
          /\ cfiles = [p \in pre |-> "old"]
          /\ cdirs = { SubSeq(p, 1, Len(cmip_raw_data_dir) + 2) : p \in pre }
    /\ di = 1 /\ si = 1 /\ cpc = "gate"
    /\ output_fns = <<>> /\ path_exists = <<>>
    /\ opened = {} /\ removed = {} /\ written = {} /\ ds_tmp = FALSE
    /\ EraIdle /\ FnIdle

NextCmip6 ==
    \/ GateSkip
    \/ GateProceed
    \/ OpenZarr
    \/ OpenFail
    \/ SubsetSkip
    \/ SubsetSave
    \/ SubsetPlev
    \/ SubsetFail
    \/ EndDataset

SpecCmip6 == InitCmip6 /\ [][NextCmip6]_vars

(***************************************************************************)
(* Claims                                                                  *)
(***************************************************************************)
\* the names of the component (intermediate) files of the current variable
Intermediates ==
    UNION { {Fn0(chunks[k]), Fn1(chunks[k]), ComponentName(chunks[k])} :
              k \in 1..Len(chunks) }

\* the concatenation step has run to its end: the variable is finished
VariableFinished == pc = "concat" /\ pc' \in {"var", "done"}

\* C1: when the processing of a variable finishes without error, the final
\* file of the whole range is on disk and no intermediate chunk file remains
\* (single-chunk ranges included).
C1_FinalExistsNoIntermediates ==
    [][VariableFinished =>
          /\ FnFinal \in DOMAIN files'
          /\ \A p \in Intermediates \ {FnFinal} : p \notin DOMAIN files']_vars

\* C5: a chunk is fetched exactly when the component file the concatenation
\* reads for it is absent, and the name tested is the name the processed
\* chunk is written to, for every resampling setting.
C5_GateTestsWrittenName ==
    [][pc = "chunk" =>
          /\ (requested' # {}) <=> ~Exists(files, ComponentName(chunk))
          /\ GateName(chunk) = Fn1(chunk)]_vars

\* C6: a chunk whose file is found by the existence test is skipped and the
\* run goes on without an error, also when no chunk was fetched before in
\* the session.
C6_SkipDoesNotRaise ==
    [][(pc = "chunk" /\ Exists(files, GateName(chunk))) =>
          /\ pc' \in {"chunk", "concat"}
          /\ err' = "none"]_vars

\* C7: when the final file of a variable exists, no retrieval is requested,
\* no file is created, changed or removed, and the loop goes on with the
\* next variable.
C7_FinalGateSkips ==
    [][(pc = "var" /\ Exists(files, FnFinal)) =>
          /\ files' = files
          /\ requested' = {} /\ touched' = {}
          /\ vi' = vi + 1
          /\ pc' \in {"var", "done"}
          /\ err' = err]_vars

\* C7 witness: the first variable was skipped because its final file was
\* there, and the loop stands at the second variable
C7_Witness ==
    /\ pc = "var" /\ vi = 2 /\ err = "none"
    /\ requested = {} /\ touched = {}
    /\ Exists(files, EraName(raw_data_dir, download_vars[1],
                             IF resamp THEN output_freq_name ELSE "hr",
                             all_years[1], all_years[Len(all_years)]))

\* C8: the final file written by the concatenation holds every year of
\* all_years once, in ascending order, and only data of the component files
\* of the current chunk list.
C8_FinalIsExactlyTheChunks ==
    [][(pc = "concat" /\ FnFinal \in touched') =>
          /\ Matched(files) \subseteq
                 { ComponentName(chunks[k]) : k \in 1..Len(chunks) }
          /\ Exists(files', FnFinal) => files'[FnFinal] = all_years]_vars

\* C9: if a component file of some chunk is missing when the concatenation
\* starts, the run fails and no final file is written.
C9_MissingComponentIsFatal ==
    [][(pc = "concat" /\ \E k \in 1..Len(chunks) :
                            ~Exists(files, ComponentName(chunks[k]))) =>
          /\ pc' = "failed"
          /\ FnFinal \notin touched']_vars

\* the chunks joined in order
RECURSIVE Flatten(_)
Flatten(cs) == IF cs = <<>> THEN <<>> ELSE Head(cs) \o Flatten(Tail(cs))

\* C10: the chunk list is a partition of the year range into consecutive
\* runs in ascending order: joined they give the range back, every chunk but
\* the last has chunk_size years, the last has between 1 and chunk_size.
C10_ChunksPartitionRange ==
    pc = "chunked" =>
        /\ Flatten(chunks) = all_years
        /\ \A k \in 1..(Len(chunks) - 1) : Len(chunks[k]) = chunk_size
        /\ Len(chunks) > 0 =>
              /\ Len(chunks[Len(chunks)]) >= 1
              /\ Len(chunks[Len(chunks)]) <= chunk_size
        /\ (all_years = Arange(1979, 1984) /\ chunk_size = 5) =>
              chunks = << Arange(1979, 1984) >>
        /\ (all_years = Arange(1979, 1990) /\ chunk_size = 5) =>
              chunks = << Arange(1979, 1984), Arange(1984, 1989), <<1989>> >>

\* C10 witness: 1979..1989 broken up with chunk size 5
C10_Witness ==
    /\ pc = "chunked"
    /\ all_years = Arange(1979, 1990) /\ chunk_size = 5
    /\ Len(chunks) = 3 /\ chunks[3] = <<1989>>

\* every output file name of the dataset under the gate is on disk
AllCandidatesExist == \A p \in Candidates(di) : Exists(cfiles, p)

C3_OverwriteRegenerates ==
    [][overwrite =>
          /\ cpc = "gate" =>
                /\ \A p \in DOMAIN cfiles \ DOMAIN cfiles' : p \in Candidates(di)
                /\ cpc' = "open" => \A p \in Candidates(di) : ~Exists(cfiles', p)
          /\ cpc = "open" =>
                /\ \A p \in Candidates(di) : ~Exists(cfiles, p)
                /\ cfiles' = cfiles
          /\ cpc \in {"subset", "end"} => DOMAIN cfiles \subseteq DOMAIN cfiles'
          /\ (cpc = "end" /\ cpc' \in {"gate", "done"}) =>
                \A p \in Candidates(di) :
                    Exists(cfiles', p) /\ cfiles'[p] # "old" /\ p \in written']_vars

\* C3 witness: a file of the first dataset was there, was removed by the
\* gate and written anew
C3_Witness ==
    /\ overwrite /\ di = 2 /\ cpc = "gate" /\ 1 \in opened
    /\ \E p \in Candidates(1) :
          p \in removed /\ Exists(cfiles, p) /\ cfiles[p] = "new"

\* C4: with overwrite off and some but not all output files of a dataset on
\* disk, the dataset is processed, exactly the missing files are written and
\* no file that was there is removed or written again.
C4_OnlyMissingWritten ==
    [][~overwrite =>
          /\ (cpc = "gate" /\ ~AllCandidatesExist) => cpc' = "open"
          /\ \A p \in DOMAIN cfiles :
                Exists(cfiles', p) /\ (cfiles[p] = "old" => cfiles'[p] = "old")
          /\ removed' = {}
          /\ (cpc = "end" /\ cpc' \in {"gate", "done"}) =>
                \A p \in Candidates(di) :
                    /\ Exists(cfiles', p)
                    /\ (p \in written') <=> (cfiles'[p] # "old")]_vars

\* C4 witness: the first dataset had one file on disk and one missing; the
\* missing one was written, the other left as it was
C4_Witness ==
    /\ ~overwrite /\ di = 2 /\ cpc = "gate" /\ 1 \in opened
    /\ \E p, q \in Candidates(1) :
          /\ cfiles[p] = "old" /\ p \notin written
          /\ cfiles[q] = "new" /\ q \in written

\* ---- fix_lons -----------------------------------------------------------

\* C11: the longitude sequence fix_lons returns is strictly increasing (so
\* that every range [a, b] with a < b selects one contiguous block of
\* columns), for every grid, lon_range and lon_origin.
C11_ReturnedLonsIncrease ==
    fpc = "returned" => StrictlyIncreasing(ds.lon)

\* C12: fix_lons is idempotent: calling it on a grid it returned, with the
\* same subset_params, gives back that grid (longitudes and column order).
C12_FixLonsIdempotent ==
    [][(fpc = "returned" /\ fpc' = "returned") => ds' = ds]_vars

InRange180(g) == \A i \in 1..Len(g.lon) : g.lon[i] >= -180 /\ g.lon[i] < 180

\* C13: with lon_range 180, a grid whose longitudes lie in [-180, 180) and
\* whose first longitude is <= -175 is returned unchanged (longitude values
\* and column order).
C13_NoOpNearMinus180 ==
    [][(fpc = "call" /\ subset_params.lon_range = 180
            /\ InRange180(ds) /\ ds.lon[1] <= -175)
         => (fpc' = "returned" /\ ds' = ds)]_vars

C13_Witness ==
    /\ fpc = "returned" /\ subset_params.lon_range = 180
    /\ InRange180(ds_in) /\ ds_in.lon[1] = -175
    /\ ds = ds_in

IsShiftOf(g, h) ==
    /\ Len(g.lon) = Len(h.lon)
    /\ \E n \in 0..(Len(h.lon) - 1) : g.col = Roll(h, n).col

\* C20: with lon_range 360 and lon_origin in [0, 360) the call does not
\* raise; all longitudes are mapped into [0, 360), the columns are those of
\* the grid, circularly shifted, and the first longitude is the first one of
\* the shifted-from grid that reaches lon_origin.
C20_Shift360 ==
    [][(fpc = "call" /\ subset_params.lon_range = 360
            /\ subset_params.lon_origin >= 0 /\ subset_params.lon_origin < 360)
         => /\ fpc' = "returned"
            /\ \A i \in 1..Len(ds'.lon) : ds'.lon[i] >= 0 /\ ds'.lon[i] < 360
            /\ IsShiftOf(ds', ds)
            /\ ds'.lon[1] >= subset_params.lon_origin]_vars

\* ---- subsetting by time -------------------------------------------------

EndDay30(t) == [t EXCEPT ![5] = "30"]

\* C14: on a grid with a 360-day calendar an end date with day 31 selects the
\* time steps that the same window with end day 30 selects; on a grid whose
\* calendar does not have 30-day months only, the steps selected are those
\* from the literal start date to the literal end date.
C14_TimeSubset ==
    [][fpc = "call" =>
         /\ fpc' = "returned"
         /\ (ds.calendar = "360_day" /\ subset_params.time[2][5] = "31")
               => ds'.time = SelTime(ds.time, ParseDate(subset_params.time[1]),
                                     ParseDate(EndDay30(subset_params.time[2])))
         /\ ds.calendar # "360_day"
               => ds'.time = SelTime(ds.time, ParseDate(subset_params.time[1]),
                                     ParseDate(subset_params.time[2]))]_vars

\* ---- CMIP6 process loop: subsets that cannot be made ---------------------

\* C15: when the time window of a subset has no step in common with the time
\* axis of the grid, no output file is written for that subset (the empty
\* result is reported instead).
C15_EmptyWindowNotWritten ==
    [][(cpc = "subset" /\ ~SkipSubset
            /\ EmptyWindow(Datasets[di], subset_params_all[si]))
         => (written' = written /\ cfiles' = cfiles)]_vars

NoLevelMatches(d) ==
    d.has_other /\ \A k \in 1..Len(d.plev) : d.plev[k] # plev_subset.plev

\* C16: when no pressure level of the grid matches the level asked for, the
\* subset entry is skipped: no file is written for it, no error ends the
\* run, and the loop goes on with the next subset entry (or the end of the
\* source dataset).
C16_NoLevelSkipsEntry ==
    [][(cpc = "subset" /\ ~SkipSubset /\ NoLevelMatches(Datasets[di]))
         => /\ written' = written /\ cfiles' = cfiles
            /\ cpc' \in {"subset", "end"}
            /\ si' = si + 1]_vars

\* ---- output directories -------------------------------------------------

\* C18: when a script goes to write a file under [raw_data_dir][source]/,
\* that directory is there after the step (the script has made it if it was
\* not there): in the ERA5 download cell for the fetch of a chunk, in the
\* CMIP6 process loop for the saving of a subset.
C18_OutputDirExists ==
    [][/\ (pc = "chunk" /\ ~ChunkPresent) => EraDir(raw_data_dir) \in dirs'
       /\ (cpc = "subset" /\ ~SkipSubset) => ModelDir(Datasets[di]) \in cdirs']_vars

\* ---- fix of the coordinate doubling -------------------------------------

\* the rows whose latitude (rounded to 10 decimals) is that of another row
DuplicateRows(g) ==
    { i \in 1..Len(g.lat) :
        \E j \in 1..Len(g.lat) : j # i /\ Round10(g.lat[j]) = Round10(g.lat[i]) }

\* C17: on a grid whose lat axis has duplicate values the rows dropped are
\* exactly the duplicate rows that are NaN in the main variable at the
\* reference slice; every other row is kept, in the order it had.
C17_DropsDuplicateNanRows ==
    [][(fpc = "call" /\ HasDuplicateLat(ds))
         => ds'.row = Keep(ds.row, { i \in 1..Len(ds.lat) :
                                       ~(i \in DuplicateRows(ds) /\ ds.nan[i]) })]_vars

\* ---- the query for all download specifications --------------------------

Range(q) == { q[i] : i \in 1..Len(q) }

\* cmip6_datasets.query(subset_query) keeps the record rec
QueryMatches(q, rec) ==
    /\ \A e \in Range(q.conj) : rec[e[1]] = e[2]
    /\ \A i \in 1..Len(q.groups) : \E e \in Range(q.groups[i]) : rec[e[1]] = e[2]

\* C19: for every non-empty list of download specifications (zero, one or
\* several keys with a common value, any number of keys with varying
\* values) the query is built: one equality per common key, one "or" group
\* per varying key over the values of the specifications; every catalog
\* record that one specification matches is matched by the query.
C19_QueryCoversSpecs ==
    [][fpc = "call" /\ data_params_all # <<>> =>
         /\ fpc' = "returned"
         /\ Range(subset_query'.conj) =
               { <<Keys[i], data_params_all[1][Keys[i]]>> :
                   i \in SourceCalls(data_params_all) }
         /\ { Range(subset_query'.groups[i]) : i \in 1..Len(subset_query'.groups) } =
               { { <<Keys[i], data_params_all[j][Keys[i]]>> :
                     j \in 1..Len(data_params_all) } :
                   i \in OtherCalls(data_params_all) }
         /\ \A j \in 1..Len(data_params_all) :
               QueryMatches(subset_query', data_params_all[j])]_vars

\* ---- spatial subsetting -------------------------------------------------
\* the longitude a grid point has in the range subset_params['lon_range']
NormLon(x, p) == IF p.lon_range = 180 THEN ((x + 180) % 360) - 180 ELSE x % 360

\* the columns and rows of the source grid inside the requested window
ColsInWindow(g, p) ==
    { g.col[i] : i \in { j \in 1..Len(g.lon) :
                           /\ p.lon[1] <= NormLon(g.lon[j], p)
                           /\ NormLon(g.lon[j], p) <= p.lon[2] } }
RowsInWindow(g, p) ==
    { g.row[i] : i \in { j \in 1..Len(g.lat) :
                           p.lat[1] <= g.lat[j] /\ g.lat[j] <= p.lat[2] } }

\* C21: with lon_origin not greater than lon[0], the grid that leaves the
\* subsetting by space holds exactly the rows whose latitude is in
\* [lat[0], lat[1]] and the columns whose normalized longitude is in
\* [lon[0], lon[1]].
C21_SpatialSubsetExact ==
    [][(fpc = "cut" /\ fpc' = "returned"
        /\ subset_params.lon_origin <= subset_params.lon[1])
       => /\ Range(ds'.col) = ColsInWindow(ds_in, subset_params)
          /\ Range(ds'.row) = RowsInWindow(ds_in, subset_params)]_vars

\* ---- ERA5: re-run after a failed run ------------------------------------
\* the final file of variable v
FinalOf(v) ==
    EraName(raw_data_dir, download_vars[v],
            IF resamp THEN output_freq_name ELSE "hr",
            all_years[1], all_years[Len(all_years)])

\* the intermediate of the chunk was written in full
IntermediateWritten(c) == Exists(files, Fn1(c)) /\ files[Fn1(c)] = c

\* C22: in a run that follows a failed run, a chunk whose intermediate was
\* written in full is not requested again and the run goes on, a chunk
\* whose intermediate is missing is requested, and when the run ends
\* without an error the final file of every variable is on disk and holds
\* every year of the range.
C22_RerunRecovers ==
    [][recovering =>
          /\ (pc = "chunk" /\ IntermediateWritten(chunk))
                => (requested' = {} /\ pc' # "failed")
          /\ (pc = "chunk" /\ ~Exists(files, Fn1(chunk)))
                => requested' = {Fn0(chunk)}
          /\ (pc # "done" /\ pc' = "done")
                => \A v \in 1..Len(download_vars) :
                      /\ Exists(files', FinalOf(v))
                      /\ Range(all_years) \subseteq Range(files'[FinalOf(v)])]_vars
====
